---- MODULE Spec2Model ----
(***************************************************************************)
(* Model of the CloudWatch log shipper of src/logger.js: the provisioning  *)
(* routine ensureCloudWatchSetup, the append routine enviarLogCloudWatch   *)
(* reached through logInfo / logError, the module-level sequenceToken they *)
(* share, and the remote log store they talk to.                           *)
(*                                                                         *)
(* Node runs the module single-threaded: every action below is one         *)
(* synchronous run of code between two awaits, or one step of the remote   *)
(* store serving a request that is in flight.                              *)
(***************************************************************************)
EXTENDS Integers, Sequences, FiniteSets, TLC

(* ---------------------------------------------------------------- bounds *)
\* number of logInfo/logError calls the route layer makes in one behaviour
MaxCalls == 2
\* number of appends another writer makes to the configured stream
MaxExt == 1
MaxReq == 3
MaxTokens == 4

\* server.js 674: connectionLimit of the MySQL pool
connectionLimit == 10

(* ------------------------------------------------------------- constants *)
\* let sequenceToken = null (JS null) and the JS value undefined
Null == 0
Undefined == -1

\* Names are sequences of characters (here: of small numbers), so that "starts
\* with" and the store's ordering by name are computed, not assumed.
LOG_GROUP_NAME == <<1>>
LOG_STREAM_NAME == <<1>>

\* the names that exist in the account besides the configured ones: one that
\* merely starts with the configured name and one that does not match at all
LongerName == <<1, 1>>
OtherName == <<0>>

Calls == 1..MaxCalls

VARIABLES
    groups,         \* store: names of the log groups that exist
    streams,        \* store: streams of LOG_GROUP_NAME, name -> [token, events]
    issued,         \* store: number of sequence tokens handed out so far
    sequenceToken,  \* logger.js: the module-level token
    prov,           \* ensureCloudWatchSetup: [pc, resp] position and the awaited response
    call,           \* per log call: position, token carried, response, bookkeeping
    nCreateGroup,   \* history: createLogGroup requests issued
    nCreateStream,  \* history: createLogStream requests issued
    arrived,        \* history: calls in the order the store served their appends
    ext,            \* history: appends made by another writer
    start,          \* history: the store as it was when the process started
    last,           \* history: arguments and event of the latest log call
    http,           \* server.js: the request being handled
    boot,           \* server.js: the mongoose.connect chain run at startup
    users,          \* MongoDB: the users collection, _id -> email
    ureq,           \* server.js: the POST/PUT /usuarios requests being handled
    conns,          \* mysql pool: connection -> [db selected, busy]
    produto,        \* MySQL: the rows of table produto and the last insert id
    preq            \* server.js: the /produtos requests being handled

\* the state of server.js
serverVars == <<http, boot, users, ureq, conns, produto, preq>>
\* the same without http, without boot, without the users, without the products
notHttp == <<boot, users, ureq, conns, produto, preq>>
notBoot == <<http, users, ureq, conns, produto, preq>>
notUsers == <<http, boot, conns, produto, preq>>
notProdutos == <<http, boot, users, ureq>>

vars == <<groups, streams, issued, sequenceToken, prov, call,
          nCreateGroup, nCreateStream, arrived, ext, start, last, serverVars>>

\* the state of logger.js and of the log store
loggerVars == <<groups, streams, issued, sequenceToken, prov, call,
                nCreateGroup, nCreateStream, arrived, ext, start, last>>

(* --------------------------------------------------------------- helpers *)
\* String.prototype.startsWith, as the store applies it to a name prefix
IsPrefix(p, s) == Len(p) <= Len(s) /\ SubSeq(s, 1, Len(p)) = p

\* lexicographic order of names, the store's default order of describe results
NameLess(a, b) ==
    \E i \in 1..(Len(a) + 1) :
        /\ \A j \in 1..(i - 1) : j <= Len(b) /\ a[j] = b[j]
        /\ \/ i = Len(a) + 1 /\ Len(b) >= i
           \/ i <= Len(a) /\ i <= Len(b) /\ a[i] < b[i]

RECURSIVE SortNames(_)
SortNames(S) ==
    IF S = {} THEN <<>>
    ELSE LET m == CHOOSE x \in S : \A y \in S \ {x} : NameLess(x, y)
         IN  <<m>> \o SortNames(S \ {m})

\* a request token that is null or undefined is left out of the request
Carried(t) == IF t = Null THEN Undefined ELSE t

(* ------------------------------------------------------- the remote store *)
\* describeLogGroups({logGroupNamePrefix}): the groups whose name starts with
\* the prefix, ordered by name
DescribeLogGroups(prefix) ==
    LET names == SortNames({g \in groups : IsPrefix(prefix, g)})
    IN  [i \in 1..Len(names) |-> [logGroupName |-> names[i]]]

\* describeLogStreams({logGroupName, logStreamNamePrefix}): the streams of the
\* group whose name starts with the prefix, ordered by name (the default
\* orderBy), each with the token the store expects next (none: undefined)
DescribeLogStreams(prefix) ==
    LET names == SortNames({n \in DOMAIN streams : IsPrefix(prefix, n)})
    IN  [i \in 1..Len(names) |->
            [logStreamName |-> names[i],
             uploadSequenceToken |-> streams[names[i]].token]]

\* the store's verdict on putLogEvents carrying token t
PutVerdict(t) ==
    IF LOG_GROUP_NAME \notin groups \/ LOG_STREAM_NAME \notin DOMAIN streams
    THEN "notfound"
    ELSE IF Carried(t) # streams[LOG_STREAM_NAME].token THEN "stale"
    ELSE "ok"

\* the stream after the store accepted event e and handed out token t
Appended(e, t) ==
    [streams EXCEPT ![LOG_STREAM_NAME] =
        [token |-> t, events |-> Append(@.events, e)]]

(* ------------------------------------------- arguments of the log calls *)
\* JS values are strings here; these three stand for undefined, null and {}
JsUndefined == "<undefined>"
JsNull == "<null>"
EmptyObject == "{}"
\* an Error instance, as the handlers' catch blocks pass it
ErrorObject == "Error: boom"

\* an object literal without keys (the default of extra)
NoFields == [k \in {} |-> ""]

\* the req argument: an express request, null (server.js:45-46) or nothing
Requests ==
    { [kind |-> "object", originalUrl |-> "/usuarios"],
      [kind |-> "null", originalUrl |-> JsUndefined],
      [kind |-> "undefined", originalUrl |-> JsUndefined] }

\* the error argument of logError: left out, null, or an Error
Errors == {JsUndefined, JsNull, ErrorObject}

\* the extra argument: left out, plain fields, or fields named like the
\* event's own
Extras ==
    { NoFields,
      [id |-> "42"],
      [level |-> "debug", id |-> "42"],
      [message |-> "other", route |-> "/other"] }

Message == "Usuario criado"

Inputs ==
    [fn : {"logInfo"}, message : {Message}, req : Requests,
     error : {JsUndefined}, extra : Extras]
    \cup
    [fn : {"logError"}, message : {Message}, req : Requests,
     error : Errors, extra : Extras]

(* ---------------------------------------------------- event construction *)
\* an object with field k set to v (assignment, or a later key of a literal)
WithField(f, k, v) == [x \in DOMAIN f \cup {k} |-> IF x = k THEN v ELSE f[x]]

\* line 80-87: { level: level, message, route: rota, ...extra }: the spread
\* comes last, so a key of extra replaces a key written before it
gerarLog(level, message, rota, extra) ==
    [k \in {"level", "message", "route"} \cup DOMAIN extra |->
        IF k \in DOMAIN extra THEN extra[k]
        ELSE IF k = "level" THEN level
        ELSE IF k = "message" THEN message
        ELSE rota]

\* line 64: req.originalUrl; line 71: req !== null ? req?.originalUrl : ''
RouteOf(in) ==
    IF in.fn = "logInfo" THEN in.req.originalUrl
    ELSE IF in.req.kind # "null" THEN in.req.originalUrl ELSE ""

\* line 70: error = {} when the argument is left out
ErrorOf(in) == IF in.error = JsUndefined THEN EmptyObject ELSE in.error

\* line 73: if (error): null is falsy, an object (also {}) is truthy
Truthy(v) == v \notin {JsNull, JsUndefined}

\* line 64 / 71-75: the event logInfo or logError hands to enviarLogCloudWatch
BuildLog(in) ==
    IF in.fn = "logInfo"
    THEN gerarLog("info", in.message, RouteOf(in), in.extra)
    ELSE LET log == gerarLog("error", in.message, RouteOf(in), in.extra)
         IN  IF Truthy(ErrorOf(in))
             THEN WithField(log, "error", [error |-> ErrorOf(in)])
             ELSE log

\* line 44: JSON.stringify(message): a key whose value is undefined is left
\* out, and an Error instance (no enumerable property) is written as {}
Stringify(log) ==
    [k \in {x \in DOMAIN log : IF x = "error" THEN TRUE ELSE log[x] # JsUndefined} |->
        IF k = "error"
        THEN [error |-> IF log[k].error = ErrorObject THEN EmptyObject
                        ELSE log[k].error]
        ELSE log[k]]

(* ------------------------------------------------------------------ Init *)
NoStreams == [n \in {} |-> [token |-> Undefined, events |-> <<>>]]

\* a stream is either empty (no token yet) or holds prior events of other
\* origin (event 0) and expects the token the store handed out last
StartStream(tok) == {[token |-> Undefined, events |-> <<>>],
                     [token |-> tok, events |-> <<0>>]}

StartStreams ==
    UNION { [ {OtherName} \cup d -> StartStream(1) \cup StartStream(2) ]
            : d \in SUBSET {LOG_STREAM_NAME, LongerName} }

\* no log call has been made yet
NoCall == [made |-> FALSE]

\* no request is being handled
NoRequest == [n |-> 0, route |-> "none", pc |-> "done", status |-> 0, logCall |-> 0]

\* line 40-44: mongoose.connect(...) has been called and is pending
Connecting == [pc |-> "connecting", connected |-> FALSE, info |-> 0, error |-> 0]

\* server.js when it has been loaded
\* a request slot no request has taken yet
NoUserRequest ==
    [pc |-> "idle", kind |-> "none", id |-> 0, email |-> "none",
     status |-> 0, inUse |-> FALSE, changed |-> FALSE]

\* a pool without connections
NoConnections == [c \in {} |-> [db |-> FALSE, busy |-> FALSE]]

\* a request slot no /produtos request has taken yet
NoProdutoRequest ==
    [pc |-> "idle", kind |-> "none", id |-> 0, conn |-> 0, status |-> 0,
     used |-> 0, noDb |-> FALSE, affected |-> FALSE]

ServerInit ==
    /\ http = NoRequest
    /\ boot = Connecting
    /\ users = [i \in {1, 2} |-> IF i = 1 THEN "a@fatec.br" ELSE "b@fatec.br"]
    /\ ureq = [r \in Calls |-> NoUserRequest]
    \* line 668: createPool opens no connection; table produto holds one row
    /\ conns = NoConnections
    /\ produto = [rows |-> {1}, insertId |-> 1]
    /\ preq = [r \in Calls |-> NoProdutoRequest]

IdleCall == [pc |-> "idle", tok |-> Null, res |-> "none", next |-> Undefined,
             submits |-> 0, afterProv |-> FALSE, conc |-> {}]

Init ==
    /\ \E g \in SUBSET {LOG_GROUP_NAME, LongerName} : groups = {OtherName} \cup g
    /\ IF LOG_GROUP_NAME \in groups
       THEN /\ streams \in StartStreams
            /\ streams[OtherName] = [token |-> 2, events |-> <<0>>]
            /\ \A n \in DOMAIN streams \ {OtherName} : streams[n].token # 2
       ELSE streams = NoStreams
    /\ issued = 2
    /\ sequenceToken = Null
    \* line 36: the module calls ensureCloudWatchSetup() when it is loaded, which
    \* runs up to its first await: the describeLogGroups request is in flight
    /\ prov = [pc |-> "describeLogGroups", served |-> FALSE, err |-> FALSE,
               list |-> <<>>]
    /\ call = [c \in Calls |-> IdleCall]
    /\ nCreateGroup = 0
    /\ nCreateStream = 0
    /\ arrived = <<>>
    /\ ext = 0
    /\ start = [groups |-> groups, streams |-> streams]
    /\ last = NoCall
    /\ ServerInit

(* ------------------------------------------- ensureCloudWatchSetup, store *)
\* the response the provisioning routine is awaiting arrives
Served(err, list) == [prov EXCEPT !.served = TRUE, !.err = err, !.list = list]

ServeDescribeLogGroups ==
    /\ prov.pc = "describeLogGroups" /\ ~prov.served
    /\ \/ prov' = Served(FALSE, DescribeLogGroups(LOG_GROUP_NAME))
       \/ prov' = Served(TRUE, <<>>)
    /\ UNCHANGED <<groups, streams, issued, sequenceToken, call,
                   nCreateGroup, nCreateStream, arrived, ext, start, last, serverVars>>

ServeCreateLogGroup ==
    /\ prov.pc = "createLogGroup" /\ ~prov.served
    /\ \/ /\ LOG_GROUP_NAME \notin groups
          /\ groups' = groups \cup {LOG_GROUP_NAME}
          /\ prov' = Served(FALSE, <<>>)
       \/ /\ prov' = Served(TRUE, <<>>)
          /\ UNCHANGED groups
    /\ UNCHANGED <<streams, issued, sequenceToken, call,
                   nCreateGroup, nCreateStream, arrived, ext, start, last, serverVars>>

ServeDescribeLogStreams ==
    /\ prov.pc = "describeLogStreams" /\ ~prov.served
    /\ \/ /\ LOG_GROUP_NAME \in groups
          /\ prov' = Served(FALSE, DescribeLogStreams(LOG_STREAM_NAME))
       \/ prov' = Served(TRUE, <<>>)
    /\ UNCHANGED <<groups, streams, issued, sequenceToken, call,
                   nCreateGroup, nCreateStream, arrived, ext, start, last, serverVars>>

ServeCreateLogStream ==
    /\ prov.pc = "createLogStream" /\ ~prov.served
    /\ \/ /\ LOG_GROUP_NAME \in groups
          /\ LOG_STREAM_NAME \notin DOMAIN streams
          /\ streams' = [n \in DOMAIN streams \cup {LOG_STREAM_NAME} |->
                            IF n = LOG_STREAM_NAME
                            THEN [token |-> Undefined, events |-> <<>>]
                            ELSE streams[n]]
          /\ prov' = Served(FALSE, <<>>)
       \/ /\ prov' = Served(TRUE, <<>>)
          /\ UNCHANGED streams
    /\ UNCHANGED <<groups, issued, sequenceToken, call,
                   nCreateGroup, nCreateStream, arrived, ext, start, last, serverVars>>

(* ------------------------------------------ ensureCloudWatchSetup, client *)
\* the routine issues its next request and suspends on it
Await(op) == [pc |-> op, served |-> FALSE, err |-> FALSE, list |-> <<>>]

\* the routine returns: normally, or through its catch (line 31-33), which
\* only writes to console.error
Return(failed) == [pc |-> "done", served |-> FALSE, err |-> failed, list |-> <<>>]

\* mutant: any listed group counts (groups.logGroups.length > 0)
FindGroup_AnyListed(list) == Len(list) > 0

\* line 17: groups.logGroups.find(g => g.logGroupName === LOG_GROUP_NAME)
FindGroup(list) == \E i \in 1..Len(list) : list[i].logGroupName = LOG_GROUP_NAME

\* line 16-19 (and 21 when the group is there): resume after describeLogGroups
AfterDescribeLogGroups ==
    /\ prov.pc = "describeLogGroups" /\ prov.served
    /\ IF prov.err THEN prov' = Return(TRUE) /\ UNCHANGED nCreateGroup
       ELSE IF ~FindGroup(prov.list)
            THEN prov' = Await("createLogGroup") /\ nCreateGroup' = nCreateGroup + 1
            ELSE prov' = Await("describeLogStreams") /\ UNCHANGED nCreateGroup
    /\ UNCHANGED <<groups, streams, issued, sequenceToken, call,
                   nCreateStream, arrived, ext, start, last, serverVars>>

\* mutant: the stream is only looked for when the group was already there
AfterCreateLogGroup_SkipStreams ==
    /\ prov.pc = "createLogGroup" /\ prov.served
    /\ prov' = Return(prov.err)
    /\ UNCHANGED <<groups, streams, issued, sequenceToken, call,
                   nCreateGroup, nCreateStream, arrived, ext, start, last, serverVars>>

\* mutant: the result of createLogGroup is not looked at
AfterCreateLogGroup_IgnoreError ==
    /\ prov.pc = "createLogGroup" /\ prov.served
    /\ prov' = Await("describeLogStreams")
    /\ UNCHANGED <<groups, streams, issued, sequenceToken, call,
                   nCreateGroup, nCreateStream, arrived, ext, start, last, serverVars>>

\* line 18-24: resume after createLogGroup
AfterCreateLogGroup ==
    /\ prov.pc = "createLogGroup" /\ prov.served
    /\ prov' = IF prov.err THEN Return(TRUE) ELSE Await("describeLogStreams")
    /\ UNCHANGED <<groups, streams, issued, sequenceToken, call,
                   nCreateGroup, nCreateStream, arrived, ext, start, last, serverVars>>

\* line 26: streams.logStreams.length === 0
NoStreamListed(list) == Len(list) = 0

\* mutant: the last listed stream is read instead of the first
SeedToken_Last(list) == list[Len(list)].uploadSequenceToken

\* line 29: streams.logStreams[0].uploadSequenceToken
SeedToken(list) == list[1].uploadSequenceToken

\* line 24-30: resume after describeLogStreams
AfterDescribeLogStreams ==
    /\ prov.pc = "describeLogStreams" /\ prov.served
    /\ IF prov.err
       THEN prov' = Return(TRUE) /\ UNCHANGED <<sequenceToken, nCreateStream>>
       ELSE IF NoStreamListed(prov.list)
            THEN /\ prov' = Await("createLogStream")
                 /\ nCreateStream' = nCreateStream + 1
                 /\ UNCHANGED sequenceToken
            ELSE /\ sequenceToken' = SeedToken(prov.list)
                 /\ prov' = Return(FALSE)
                 /\ UNCHANGED nCreateStream
    /\ UNCHANGED <<groups, streams, issued, call, nCreateGroup, arrived, ext, start, last, serverVars>>

\* line 27-34: resume after createLogStream
AfterCreateLogStream ==
    /\ prov.pc = "createLogStream" /\ prov.served
    /\ prov' = Return(prov.err)
    /\ UNCHANGED <<groups, streams, issued, sequenceToken, call,
                   nCreateGroup, nCreateStream, arrived, ext, start, last, serverVars>>

ProvisioningDone == prov.pc = "done"
ProvisioningOk == prov.pc = "done" /\ ~prov.err

\* an append of call c is in flight: requested, and its await not yet settled
InFlight(c) == call[c].pc \in {"sent", "answered"}

(* ------------------------------------------------------------- log calls *)
\* line 64: logInfo reads req.originalUrl, which throws a TypeError when req is
\* null or undefined; line 71: logError guards req (req !== null, req?.)
Throws(in) == in.fn = "logInfo" /\ in.req.kind # "object"

\* calls are numbered in the order they are made
NextCall(c) ==
    /\ call[c].pc = "idle"
    /\ IF c = 1 THEN TRUE ELSE call[c - 1].pc # "idle"

\* mutant: the call suspends after building the event, before it reads the
\* token and sends the request
LogCall_Suspended(c, threw) ==
    /\ call' = [call EXCEPT ![c].pc = IF threw THEN "threw" ELSE "built"]
    /\ UNCHANGED <<groups, streams, issued, sequenceToken, prov,
                   nCreateGroup, nCreateStream, arrived, ext, start>>

\* line 63-66 / 70-77 and 39-54: logInfo or logError builds the event and runs
\* enviarLogCloudWatch up to its await: the request carries the token the
\* module holds at that moment. If building the event throws, the promise of
\* the call rejects and nothing is sent.
LogCall(c, threw) ==
    /\ call' = IF threw
               THEN [call EXCEPT ![c].pc = "threw"]
               ELSE [call EXCEPT ![c] = [@ EXCEPT !.pc = "sent",
                                                  !.tok = sequenceToken,
                                                  !.submits = @ + 1,
                                                  !.afterProv = ProvisioningDone,
                                                  !.conc = {d \in Calls : InFlight(d)}]]
    /\ UNCHANGED <<groups, streams, issued, sequenceToken, prov,
                   nCreateGroup, nCreateStream, arrived, ext, start>>

\* some caller makes the next log call, with any arguments
Invoke(c) ==
    /\ NextCall(c)
    /\ \E threw \in {Throws(in) : in \in Inputs} : LogCall(c, threw)
    /\ UNCHANGED <<last, serverVars>>

\* the store serves the putLogEvents request of call c, or the request fails
\* on the way (res = "neterr")
ServePutLogEvents(c) ==
    /\ call[c].pc = "sent"
    /\ \/ /\ PutVerdict(call[c].tok) = "ok"
          /\ streams' = Appended(c, issued + 1)
          /\ issued' = issued + 1
          /\ call' = [call EXCEPT ![c] = [@ EXCEPT !.pc = "answered", !.res = "ok",
                                                   !.next = issued + 1]]
          /\ arrived' = Append(arrived, c)
       \/ /\ PutVerdict(call[c].tok) # "ok"
          /\ call' = [call EXCEPT ![c] = [@ EXCEPT !.pc = "answered",
                                                   !.res = PutVerdict(call[c].tok)]]
          /\ arrived' = Append(arrived, c)
          /\ UNCHANGED <<streams, issued>>
       \/ /\ call' = [call EXCEPT ![c] = [@ EXCEPT !.pc = "answered", !.res = "neterr"]]
          /\ UNCHANGED <<streams, issued, arrived>>
    /\ UNCHANGED <<groups, sequenceToken, prov, nCreateGroup, nCreateStream, ext, start, last, serverVars>>

\* mutant: the response's token is taken only if no one changed the module's
\* token since the request was built
AppendResolved_IfUnchanged(c) ==
    /\ call[c].pc = "answered" /\ call[c].res = "ok"
    /\ sequenceToken' = IF sequenceToken = call[c].tok THEN call[c].next
                        ELSE sequenceToken
    /\ call' = [call EXCEPT ![c].pc = "done"]
    /\ UNCHANGED <<groups, streams, issued, prov,
                   nCreateGroup, nCreateStream, arrived, ext, start, last, serverVars>>

\* line 54-56: the await resolves; the token of the response replaces the
\* module's token and the promise of logInfo/logError resolves
AppendResolved(c) ==
    /\ call[c].pc = "answered" /\ call[c].res = "ok"
    /\ sequenceToken' = call[c].next
    /\ call' = [call EXCEPT ![c].pc = "done"]
    /\ UNCHANGED <<groups, streams, issued, prov,
                   nCreateGroup, nCreateStream, arrived, ext, start, last, serverVars>>

\* mutant: the catch forgets the token it holds
AppendRejected_ResetToken(c) ==
    /\ call[c].pc = "answered" /\ call[c].res # "ok"
    /\ sequenceToken' = Null
    /\ call' = [call EXCEPT ![c].pc = "done"]
    /\ UNCHANGED <<groups, streams, issued, prov,
                   nCreateGroup, nCreateStream, arrived, ext, start, last, serverVars>>

\* mutant: on a token mismatch the catch drops the token and sends the append
\* once more
AppendRejected_ResetAndRetry(c) ==
    /\ call[c].pc = "answered" /\ call[c].res # "ok"
    /\ IF call[c].res = "stale" /\ call[c].submits = 1
       THEN /\ sequenceToken' = Null
            /\ call' = [call EXCEPT ![c] = [@ EXCEPT !.pc = "sent", !.tok = Null,
                                                     !.res = "none", !.submits = 2]]
       ELSE /\ call' = [call EXCEPT ![c].pc = "done"]
            /\ UNCHANGED sequenceToken
    /\ UNCHANGED <<groups, streams, issued, prov,
                   nCreateGroup, nCreateStream, arrived, ext, start, last, serverVars>>

\* mutant: the catch sends a failed append once more, with the current token
AppendRejected_Retry(c) ==
    /\ call[c].pc = "answered" /\ call[c].res # "ok"
    /\ call' = IF call[c].submits = 1
               THEN [call EXCEPT ![c] = [@ EXCEPT !.pc = "sent", !.tok = sequenceToken,
                                                  !.res = "none", !.submits = 2]]
               ELSE [call EXCEPT ![c].pc = "done"]
    /\ UNCHANGED <<groups, streams, issued, sequenceToken, prov,
                   nCreateGroup, nCreateStream, arrived, ext, start, last, serverVars>>

\* mutant: the catch runs ensureCloudWatchSetup again when it has returned
AppendRejected_Reprovision(c) ==
    /\ call[c].pc = "answered" /\ call[c].res # "ok"
    /\ call' = [call EXCEPT ![c].pc = "done"]
    /\ prov' = IF ProvisioningDone THEN Await("describeLogGroups") ELSE prov
    /\ UNCHANGED <<groups, streams, issued, sequenceToken,
                   nCreateGroup, nCreateStream, arrived, ext, start, last, serverVars>>

\* line 57-59: the await rejects; the catch writes to console.error and the
\* promise of logInfo/logError resolves
AppendRejected(c) ==
    /\ call[c].pc = "answered" /\ call[c].res # "ok"
    /\ call' = [call EXCEPT ![c].pc = "done"]
    /\ UNCHANGED <<groups, streams, issued, sequenceToken, prov,
                   nCreateGroup, nCreateStream, arrived, ext, start, last, serverVars>>

(* ------------------------------------------------------- another writer *)
\* another process appends to the configured stream with the right token
ExternalAppend ==
    /\ ext < MaxExt
    /\ LOG_GROUP_NAME \in groups /\ LOG_STREAM_NAME \in DOMAIN streams
    /\ streams' = Appended(0, issued + 1)
    /\ issued' = issued + 1
    /\ ext' = ext + 1
    /\ UNCHANGED <<groups, sequenceToken, prov, call,
                   nCreateGroup, nCreateStream, arrived, start, last, serverVars>>

Next ==
    \/ ServeDescribeLogGroups
    \/ AfterDescribeLogGroups
    \/ ServeCreateLogGroup
    \/ AfterCreateLogGroup
    \/ ServeDescribeLogStreams
    \/ AfterDescribeLogStreams
    \/ ServeCreateLogStream
    \/ AfterCreateLogStream
    \/ \E c \in Calls : Invoke(c)
    \/ \E c \in Calls : ServePutLogEvents(c)
    \/ \E c \in Calls : AppendResolved(c)
    \/ \E c \in Calls : AppendRejected(c)
    \/ ExternalAppend

Spec == Init /\ [][Next]_vars

(* ------------------------------------------- the log calls, with arguments *)
\* the store and the module once provisioning has found the configured
\* stream: line 29 has seeded the token the stream expects (none when the
\* stream holds no events)
InitReady ==
    /\ groups = {OtherName, LOG_GROUP_NAME}
    /\ \E st \in StartStream(1) :
          streams = [n \in {OtherName, LOG_STREAM_NAME} |->
                        IF n = OtherName THEN [token |-> 2, events |-> <<0>>] ELSE st]
    /\ issued = 2
    /\ sequenceToken = streams[LOG_STREAM_NAME].token
    /\ prov = Return(FALSE)
    /\ call = [c \in Calls |-> IdleCall]
    /\ nCreateGroup = 0
    /\ nCreateStream = 0
    /\ arrived = <<>>
    /\ ext = 0
    /\ start = [groups |-> groups, streams |-> streams]
    /\ last = NoCall
    /\ ServerInit

\* what the latest call was given, what it built and what it put in the
\* request (nothing when it threw)
Logged(c, in) ==
    [made |-> TRUE, call |-> c, in |-> in, threw |-> Throws(in),
     log |-> IF Throws(in) THEN NoFields ELSE BuildLog(in),
     sent |-> IF Throws(in) THEN NoFields ELSE Stringify(BuildLog(in))]

\* line 63-78: logInfo or logError is called with arguments in
InvokeLog(c) ==
    /\ NextCall(c)
    /\ \E in \in Inputs :
          /\ LogCall(c, Throws(in))
          /\ last' = Logged(c, in)
    /\ UNCHANGED serverVars

NextLog ==
    \/ \E c \in Calls : InvokeLog(c)
    \/ \E c \in Calls : ServePutLogEvents(c)
    \/ \E c \in Calls : AppendResolved(c)
    \/ \E c \in Calls : AppendRejected(c)

SpecLog == InitReady /\ [][NextLog]_vars

(* ------------------------------------------------ the route handlers *)
\* server.js 87-122 and 166-189
TestarConexao == "GET /mongodb/testar-conexao"
Usuarios == "POST /usuarios"

\* the handler answers with status st and returns
Responded(st) == [http EXCEPT !.pc = "done", !.status = st]

\* a log call the handler makes with its own req (an object: never throws)
HandlerLogs(c) == NextCall(c) /\ LogCall(c, FALSE)

\* a request arrives; the handler runs up to its first await or its answer:
\* line 90 (readyState), line 171 (!nome || !email). Requests are taken
\* while a log call is left within Calls.
Request(route) ==
    /\ http.pc = "done" /\ http.n < MaxReq
    /\ \E c \in Calls : call[c].pc = "idle"
    /\ \E ready \in BOOLEAN :
          http' = IF ready
                  THEN [n |-> http.n + 1, route |-> route, pc |-> "findOne",
                        status |-> 0, logCall |-> 0]
                  ELSE [n |-> http.n + 1, route |-> route, pc |-> "done",
                        status |-> IF route = TestarConexao THEN 500 ELSE 400,
                        logCall |-> 0]
    /\ UNCHANGED <<groups, streams, issued, sequenceToken, prov, call,
                   nCreateGroup, nCreateStream, arrived, ext, start, last, notHttp>>

\* line 91-108: User.findOne() resolved: logInfo (not awaited), then 200
TestarConexaoFound ==
    /\ http.route = TestarConexao /\ http.pc = "findOne"
    /\ \E c \in Calls :
          /\ HandlerLogs(c)
          /\ http' = [Responded(200) EXCEPT !.logCall = c]
    /\ UNCHANGED <<last, notHttp>>

\* line 115-116: User.findOne() rejected: await logError(...)
TestarConexaoCatch ==
    /\ http.route = TestarConexao /\ http.pc = "findOne"
    /\ \E c \in Calls :
          /\ HandlerLogs(c)
          /\ http' = [http EXCEPT !.pc = "awaitLog", !.logCall = c]
    /\ UNCHANGED <<last, notHttp>>

\* line 117-120: the promise of logError has resolved: 500
TestarConexaoAfterLog ==
    /\ http.route = TestarConexao /\ http.pc = "awaitLog"
    /\ call[http.logCall].pc = "done"
    /\ http' = Responded(500)
    /\ UNCHANGED <<groups, streams, issued, sequenceToken, prov, call,
                   nCreateGroup, nCreateStream, arrived, ext, start, last, notHttp>>

\* line 176-182: User.findOne({email}) resolved: 400 when the email is
\* taken, else await user.save()
UsuariosFound ==
    /\ http.route = Usuarios /\ http.pc = "findOne"
    /\ \E existing \in BOOLEAN :
          http' = IF existing THEN Responded(400) ELSE [http EXCEPT !.pc = "save"]
    /\ UNCHANGED <<groups, streams, issued, sequenceToken, prov, call,
                   nCreateGroup, nCreateStream, arrived, ext, start, last, notHttp>>

\* line 183-184: user.save() resolved: logInfo (not awaited), then 201
UsuariosSaved ==
    /\ http.route = Usuarios /\ http.pc = "save"
    /\ \E c \in Calls :
          /\ HandlerLogs(c)
          /\ http' = [Responded(201) EXCEPT !.logCall = c]
    /\ UNCHANGED <<last, notHttp>>

\* line 185-188: findOne or save rejected: logError (not awaited), then 500
UsuariosCatch ==
    /\ http.route = Usuarios /\ http.pc \in {"findOne", "save"}
    /\ \E c \in Calls :
          /\ HandlerLogs(c)
          /\ http' = [Responded(500) EXCEPT !.logCall = c]
    /\ UNCHANGED <<last, notHttp>>

NextHttp ==
    \/ \E route \in {TestarConexao, Usuarios} : Request(route)
    \/ TestarConexaoFound
    \/ TestarConexaoCatch
    \/ TestarConexaoAfterLog
    \/ UsuariosFound
    \/ UsuariosSaved
    \/ UsuariosCatch
    \/ \E c \in Calls : ServePutLogEvents(c)
    \/ \E c \in Calls : AppendResolved(c)
    \/ \E c \in Calls : AppendRejected(c)

SpecHttp == InitReady /\ [][NextHttp]_vars

(* ------------------------------------------------- the startup chain *)
\* server.js 40-46: mongoose.connect(...).then(...).catch(...)
\* line 45: logInfo("MongoDB conectado", null)
ConnectedLog ==
    [fn |-> "logInfo", message |-> "MongoDB conectado",
     req |-> [kind |-> "null", originalUrl |-> JsUndefined],
     error |-> JsUndefined, extra |-> NoFields]

\* line 46: logError("Erro ao logar mongodb" + err, null, err)
ConnectErrorLog ==
    [fn |-> "logError", message |-> "Erro ao logar mongodb",
     req |-> [kind |-> "null", originalUrl |-> JsUndefined],
     error |-> ErrorObject, extra |-> NoFields]

\* the number of events of the given level the call with arguments in submits
Submitted(level, in) ==
    IF Throws(in) THEN 0
    ELSE IF BuildLog(in)["level"] = level THEN 1 ELSE 0

\* a callback of the chain makes the log call with arguments in
BootLogs(in) ==
    \E c \in Calls :
        /\ NextCall(c)
        /\ LogCall(c, Throws(in))
        /\ last' = Logged(c, in)

\* line 41-44: the promise of mongoose.connect settles
ConnectSettles ==
    /\ boot.pc = "connecting"
    /\ \E ok \in BOOLEAN :
          boot' = [boot EXCEPT !.pc = IF ok THEN "then" ELSE "catch",
                               !.connected = ok]
    /\ UNCHANGED <<loggerVars, notBoot>>

\* line 45: the then callback runs: it returns the promise of logInfo; when
\* logInfo throws, that promise is rejected and the chain goes on to catch
ThenCallback ==
    /\ boot.pc = "then"
    /\ BootLogs(ConnectedLog)
    /\ boot' = [boot EXCEPT !.pc = IF Throws(ConnectedLog) THEN "catch" ELSE "done",
                            !.info = @ + Submitted("info", ConnectedLog),
                            !.error = @ + Submitted("error", ConnectedLog)]
    /\ UNCHANGED notBoot

\* line 46: the catch callback runs, for a rejection of connect or of the
\* then callback
CatchCallback ==
    /\ boot.pc = "catch"
    /\ BootLogs(ConnectErrorLog)
    /\ boot' = [boot EXCEPT !.pc = "done",
                            !.info = @ + Submitted("info", ConnectErrorLog),
                            !.error = @ + Submitted("error", ConnectErrorLog)]
    /\ UNCHANGED notBoot

NextBoot ==
    \/ ServeDescribeLogGroups
    \/ AfterDescribeLogGroups
    \/ ServeCreateLogGroup
    \/ AfterCreateLogGroup
    \/ ServeDescribeLogStreams
    \/ AfterDescribeLogStreams
    \/ ServeCreateLogStream
    \/ AfterCreateLogStream
    \/ ConnectSettles
    \/ ThenCallback
    \/ CatchCallback
    \/ \E c \in Calls : ServePutLogEvents(c)
    \/ \E c \in Calls : AppendResolved(c)
    \/ \E c \in Calls : AppendRejected(c)

SpecBoot == Init /\ [][NextBoot]_vars

(* ------------------------------------ POST /usuarios and PUT /usuarios/:id *)
\* server.js 166-189 and 395-440, several requests at a time
Emails == {"a@fatec.br", "b@fatec.br", "c@fatec.br"}
NoEmail == "none"

\* User.findOne({ email }) / User.findOne({ email, _id: { $ne: id } }): some
\* user other than id has the email (a new user has id 0)
EmailInUse(email, id) == \E i \in DOMAIN users : i # id /\ users[i] = email

\* the _id MongoDB gives the next document
NewId == Cardinality(DOMAIN users) + 1

\* the request answers with status st and returns
Answer(r, st) == [ureq EXCEPT ![r].pc = "done", ![r].status = st]

\* line 168-173: POST /usuarios arrives; !nome || !email answers 400
PostUsuarios(r) ==
    /\ ureq[r].pc = "idle"
    /\ \E email \in Emails \cup {NoEmail} :
          ureq' = [ureq EXCEPT ![r] =
                      [@ EXCEPT !.kind = "POST", !.email = email,
                                !.pc = IF email = NoEmail THEN "done" ELSE "findOne",
                                !.status = IF email = NoEmail THEN 400 ELSE 0]]
    /\ UNCHANGED <<loggerVars, notUsers, users>>

\* line 176-179: findOne resolved; the email is taken: 400, else save
PostFound(r) ==
    /\ ureq[r].kind = "POST" /\ ureq[r].pc = "findOne"
    /\ ureq' = IF EmailInUse(ureq[r].email, 0)
               THEN [Answer(r, 400) EXCEPT ![r].inUse = TRUE]
               ELSE [ureq EXCEPT ![r].pc = "save"]
    /\ UNCHANGED <<loggerVars, notUsers, users>>

\* line 181-184: user.save() resolved: logInfo, 201
PostSaved(r) ==
    /\ ureq[r].kind = "POST" /\ ureq[r].pc = "save"
    /\ ~EmailInUse(ureq[r].email, 0)
    /\ users' = [i \in DOMAIN users \cup {NewId} |->
                    IF i = NewId THEN ureq[r].email ELSE users[i]]
    /\ \E c \in Calls : HandlerLogs(c)
    /\ ureq' = [Answer(r, 201) EXCEPT ![r].changed = TRUE]
    /\ UNCHANGED <<last, notUsers>>

\* line 185-188: findOne or save rejected (for save: the unique index on email,
\* line 60, refuses a second document with the email; or any other failure):
\* logError, 500
PostCatch(r) ==
    /\ ureq[r].kind = "POST" /\ ureq[r].pc \in {"findOne", "save"}
    /\ \E c \in Calls : HandlerLogs(c)
    /\ ureq' = [Answer(r, 500) EXCEPT
                   ![r].inUse = ureq[r].pc = "save" /\ EmailInUse(ureq[r].email, 0)]
    /\ UNCHANGED <<last, notUsers, users>>

\* line 397-409: PUT /usuarios/:id arrives; a malformed id (0) or a body
\* with neither nome nor email answers 400; line 412: the email is looked up
\* only when the body has one
PutUsuarios(r) ==
    /\ ureq[r].pc = "idle"
    /\ \E id \in 0..3, email \in Emails \cup {NoEmail}, nome \in BOOLEAN :
          LET bad == id = 0 \/ (email = NoEmail /\ ~nome)
          IN  ureq' = [ureq EXCEPT ![r] =
                          [@ EXCEPT !.kind = "PUT", !.id = id, !.email = email,
                                    !.pc = IF bad THEN "done"
                                           ELSE IF email = NoEmail THEN "update"
                                           ELSE "findOne",
                                    !.status = IF bad THEN 400 ELSE 0]]
    /\ UNCHANGED <<loggerVars, notUsers, users>>

\* line 413-421: findOne resolved; another user has the email: 400
PutFound(r) ==
    /\ ureq[r].kind = "PUT" /\ ureq[r].pc = "findOne"
    /\ ureq' = IF EmailInUse(ureq[r].email, ureq[r].id)
               THEN [Answer(r, 400) EXCEPT ![r].inUse = TRUE]
               ELSE [ureq EXCEPT ![r].pc = "update"]
    /\ UNCHANGED <<loggerVars, notUsers, users>>

\* line 424-432: findByIdAndUpdate resolved with no document: 404
PutNotFound(r) ==
    /\ ureq[r].kind = "PUT" /\ ureq[r].pc = "update"
    /\ ureq[r].id \notin DOMAIN users
    /\ ureq' = Answer(r, 404)
    /\ UNCHANGED <<loggerVars, notUsers, users>>

\* line 424-435: findByIdAndUpdate resolved with the document: logInfo, 200
PutUpdated(r) ==
    /\ ureq[r].kind = "PUT" /\ ureq[r].pc = "update"
    /\ ureq[r].id \in DOMAIN users
    /\ ureq[r].email # NoEmail => ~EmailInUse(ureq[r].email, ureq[r].id)
    /\ users' = IF ureq[r].email = NoEmail THEN users
                ELSE [users EXCEPT ![ureq[r].id] = ureq[r].email]
    /\ \E c \in Calls : HandlerLogs(c)
    /\ ureq' = [Answer(r, 200) EXCEPT ![r].changed = TRUE]
    /\ UNCHANGED <<last, notUsers>>

\* line 436-439: findOne or findByIdAndUpdate rejected (the unique index
\* refuses the email, or any other failure): logError, 500
PutCatch(r) ==
    /\ ureq[r].kind = "PUT" /\ ureq[r].pc \in {"findOne", "update"}
    /\ \E c \in Calls : HandlerLogs(c)
    /\ ureq' = [Answer(r, 500) EXCEPT
                   ![r].inUse = /\ ureq[r].pc = "update"
                                /\ ureq[r].email # NoEmail
                                /\ EmailInUse(ureq[r].email, ureq[r].id)]
    /\ UNCHANGED <<last, notUsers, users>>

NextUsers ==
    \/ \E r \in Calls : PostUsuarios(r)
    \/ \E r \in Calls : PostFound(r)
    \/ \E r \in Calls : PostSaved(r)
    \/ \E r \in Calls : PostCatch(r)
    \/ \E r \in Calls : PutUsuarios(r)
    \/ \E r \in Calls : PutFound(r)
    \/ \E r \in Calls : PutNotFound(r)
    \/ \E r \in Calls : PutUpdated(r)
    \/ \E r \in Calls : PutCatch(r)
    \/ \E c \in Calls : ServePutLogEvents(c)
    \/ \E c \in Calls : AppendResolved(c)
    \/ \E c \in Calls : AppendRejected(c)

SpecUsers == InitReady /\ [][NextUsers]_vars

(* ------------------------------------- POST /produtos, DELETE /produtos/:id *)
\* server.js 668-676, 826-878 and 1260-1294, several requests at a time
\* the connections pool.query can be given: a free one, whichever the pool
\* prefers; a new one when none is free and the pool is below its limit;
\* none (the query waits) when the pool is at its limit
Candidates(p) ==
    LET free == {c \in DOMAIN p : ~p[c].busy}
    IN  IF free # {} THEN free
        ELSE IF Cardinality(DOMAIN p) < connectionLimit
             THEN {CHOOSE c \in 1..connectionLimit :
                      c \notin DOMAIN p /\ \A d \in 1..(c - 1) : d \in DOMAIN p}
             ELSE {}

\* the pool after connection c was taken for a query; a new connection has
\* no database selected
Taken(p, c) ==
    [x \in DOMAIN p \cup {c} |->
        IF x # c THEN p[x]
        ELSE [db |-> IF c \in DOMAIN p THEN p[c].db ELSE FALSE, busy |-> TRUE]]

\* the pool after the query on c ended and c was released
Released(p, c) == [p EXCEPT ![c].busy = FALSE]

\* the pool after USE `DB_NAME` ran on c
Selected(p, c) == [p EXCEPT ![c].db = TRUE]

\* the pool after connection c was lost
Lost(p, c) == [x \in DOMAIN p \ {c} |-> p[x]]

\* the handler returns with status st
Reply(r, st) == [preq EXCEPT ![r].pc = "done", ![r].status = st]

\* the handler calls pool.query for its next statement and awaits it
NextQuery(r, pc, c) == [preq EXCEPT ![r].pc = pc, ![r].conn = c]

\* mutant: the handler sends its statement without USE before it
ProdutoRequest_NoUse(r) ==
    /\ preq[r].pc = "idle"
    /\ \E kind \in {"POST", "DELETE"}, id \in 0..2, c \in Candidates(conns) :
          /\ id # 0
          /\ preq' = [preq EXCEPT ![r] =
                         [@ EXCEPT !.kind = kind, !.id = id, !.conn = c,
                                   !.pc = IF kind = "POST" THEN "insert" ELSE "select"]]
          /\ conns' = Taken(conns, c)
    /\ UNCHANGED <<loggerVars, notProdutos, produto>>

\* line 826-855 / 1260-1271: a request arrives; a body or an id that fails
\* the validation (id 0) answers 400; else the handler calls
\* pool.query(USE `DB_NAME`) and awaits it
ProdutoRequest(r) ==
    /\ preq[r].pc = "idle"
    /\ \E kind \in {"POST", "DELETE"}, id \in 0..2 :
          IF id = 0
          THEN /\ preq' = [preq EXCEPT ![r] =
                              [@ EXCEPT !.kind = kind, !.pc = "done", !.status = 400]]
               /\ UNCHANGED conns
          ELSE \E c \in Candidates(conns) :
                  /\ preq' = [preq EXCEPT ![r] =
                                 [@ EXCEPT !.kind = kind, !.id = id,
                                           !.pc = "use", !.conn = c]]
                  /\ conns' = Taken(conns, c)
    /\ UNCHANGED <<loggerVars, notProdutos, produto>>

\* line 855-856 / 1271-1274: USE has run on the connection, which goes back
\* to the pool; the handler resumes and calls pool.query for its statement
AfterUse(r) ==
    /\ preq[r].pc = "use"
    /\ LET p == Released(Selected(conns, preq[r].conn), preq[r].conn)
       IN  \E c \in Candidates(p) :
              /\ conns' = Taken(p, c)
              /\ preq' = [NextQuery(r, IF preq[r].kind = "POST" THEN "insert"
                                       ELSE "select", c)
                             EXCEPT ![r].used = preq[r].conn]
    /\ UNCHANGED <<loggerVars, notProdutos, produto>>

\* line 874-877 / 1290-1293: the awaited query rejects because its
\* connection was lost (the pool drops it), or, for a statement, because no
\* database is selected on the connection: catch, logError, 500
QueryFails(r) ==
    /\ preq[r].pc \in {"use", "insert", "select", "delete"}
    /\ \/ /\ conns' = Lost(conns, preq[r].conn)
          /\ preq' = Reply(r, 500)
       \/ /\ preq[r].pc # "use" /\ ~conns[preq[r].conn].db
          /\ conns' = Released(conns, preq[r].conn)
          /\ preq' = [Reply(r, 500) EXCEPT ![r].noDb = TRUE]
    /\ \E c \in Calls : HandlerLogs(c)
    /\ UNCHANGED <<last, notProdutos, produto>>

\* line 856-873: the INSERT has run: logInfo, 201
AfterInsert(r) ==
    /\ preq[r].pc = "insert" /\ conns[preq[r].conn].db
    /\ produto' = [rows |-> produto.rows \cup {produto.insertId + 1},
                   insertId |-> produto.insertId + 1]
    /\ conns' = Released(conns, preq[r].conn)
    /\ \E c \in Calls : HandlerLogs(c)
    /\ preq' = [Reply(r, 201) EXCEPT ![r].affected = TRUE]
    /\ UNCHANGED <<last, notProdutos>>

\* line 1274-1283: the SELECT has run: no row answers 404; else the handler
\* calls pool.query for the DELETE
AfterSelect(r) ==
    /\ preq[r].pc = "select" /\ conns[preq[r].conn].db
    /\ LET p == Released(conns, preq[r].conn)
       IN  IF preq[r].id \notin produto.rows
           THEN conns' = p /\ preq' = Reply(r, 404)
           ELSE \E c \in Candidates(p) :
                   conns' = Taken(p, c) /\ preq' = NextQuery(r, "delete", c)
    /\ UNCHANGED <<loggerVars, notProdutos, produto>>

\* line 1283-1289: the DELETE has run, on a row or on none: logInfo, 200
\* "Produto removido com sucesso"
AfterDelete(r) ==
    /\ preq[r].pc = "delete" /\ conns[preq[r].conn].db
    /\ produto' = [produto EXCEPT !.rows = @ \ {preq[r].id}]
    /\ conns' = Released(conns, preq[r].conn)
    /\ \E c \in Calls : HandlerLogs(c)
    /\ preq' = [Reply(r, 200) EXCEPT ![r].affected = preq[r].id \in produto.rows]
    /\ UNCHANGED <<last, notProdutos>>

NextProdutos ==
    \/ \E r \in Calls : ProdutoRequest(r)
    \/ \E r \in Calls : AfterUse(r)
    \/ \E r \in Calls : QueryFails(r)
    \/ \E r \in Calls : AfterInsert(r)
    \/ \E r \in Calls : AfterSelect(r)
    \/ \E r \in Calls : AfterDelete(r)

SpecProdutos == InitReady /\ [][NextProdutos]_vars

(* ------------------------------------------ log calls made without end *)
\* a call whose promise has settled is over; another call can be made in its
\* place. (Calls that were accepted are replaced while the store has handed
\* out fewer than MaxTokens tokens.)
Forget(c) ==
    /\ call[c].pc \in {"done", "threw"}
    /\ call[c].res = "ok" => issued < MaxTokens
    /\ call' = [call EXCEPT ![c] = IdleCall]
    /\ arrived' = SelectSeq(arrived, LAMBDA d : d # c)
    /\ UNCHANGED <<groups, streams, issued, sequenceToken, prov,
                   nCreateGroup, nCreateStream, ext, start, last, serverVars>>

NextLive ==
    \/ \E c \in Calls : Invoke(c)
    \/ \E c \in Calls : ServePutLogEvents(c)
    \/ \E c \in Calls : AppendResolved(c)
    \/ \E c \in Calls : AppendRejected(c)
    \/ \E c \in Calls : Forget(c)
    \/ ExternalAppend

\* callers keep making log calls, the store answers every request and every
\* continuation of the event loop is run
SpecLive ==
    /\ InitReady
    /\ [][NextLive]_vars
    /\ WF_vars(\E c \in Calls : Invoke(c))
    /\ WF_vars(\E c \in Calls : ServePutLogEvents(c))
    /\ WF_vars(\E c \in Calls : AppendResolved(c))
    /\ WF_vars(\E c \in Calls : AppendRejected(c))
    /\ WF_vars(\E c \in Calls : Forget(c))

(* ---------------------------------------------------- vocabulary of claims *)
Stream == streams[LOG_STREAM_NAME]
StreamExists == LOG_GROUP_NAME \in groups /\ LOG_STREAM_NAME \in DOMAIN streams

\* how often event e occurs in the configured stream
Delivered(e) ==
    IF StreamExists THEN Cardinality({i \in 1..Len(Stream.events) : Stream.events[i] = e})
    ELSE 0

Settled(c) == call[c].pc = "done"
Accepted(c) == call[c].res = "ok"
\* the request of call c got to the store (it did not fail on the way)
Reached(c) == \E i \in 1..Len(arrived) : arrived[i] = c
Pos(c) == CHOOSE i \in 1..Len(arrived) : arrived[i] = c

\* the step in which the await of call c settles with the given kind of result
SettlesOk(c) == call[c].pc = "answered" /\ call[c].res = "ok" /\ call'[c].pc # "answered"
SettlesFailed(c) == call[c].pc = "answered" /\ call[c].res # "ok" /\ call'[c].pc # "answered"
SettlesStale(c) == SettlesFailed(c) /\ call[c].res = "stale"
\* the step in which some call sends an append request
Submits(c) == call'[c].submits > call[c].submits

(* ----------------------------------------------------------------- C1 *)
\* C1: in every reachable state at most one append of this process is in
\* flight: the read-token / append / update-token sequences of two log calls
\* never interleave.
C1_OneAppendInFlight == Cardinality({c \in Calls : InFlight(c)}) <= 1

(* ----------------------------------------------------------------- C2 *)
\* calls a and b were issued concurrently (b while a's append was in flight),
\* carried the same token, both reached the store, and that token was the one
\* the store expected when the first of the two arrived
Raced(a, b) ==
    /\ a # b /\ a \in call[b].conc
    /\ call[a].tok = call[b].tok
    /\ Reached(a) /\ Reached(b)
    /\ \A c \in {a, b} : call[c].res # "notfound"
    /\ \E c \in {a, b} : Accepted(c) /\ \A d \in {a, b} : Pos(c) <= Pos(d)

\* a and b are alone: every other call had settled before they were made, or
\* has not been made
LastCalls(a, b) ==
    \A c \in Calls \ {a, b} :
        \/ call[c].pc = "idle"
        \/ c < a /\ c < b /\ c \notin call[a].conc \cup call[b].conc

\* C2: of two log calls issued concurrently with the same (then valid) token
\* the store accepts exactly one and rejects the other as stale; exactly one
\* of the two events is in the stream, the rejected one is not retried, and
\* once both have settled (no other call in flight with them or made later,
\* provisioning over when they were issued) the in-memory token is the
\* next-token of the accepted append.
C2_RaceLosesOneEvent ==
    \A a, b \in Calls :
        Raced(a, b) =>
            /\ \E w \in {a, b} : \A l \in {a, b} \ {w} :
                  /\ Accepted(w) /\ call[l].res = "stale"
                  /\ Delivered(w) = 1 /\ Delivered(l) = 0
                  /\ call[w].submits = 1 /\ call[l].submits = 1
                  /\ (Settled(a) /\ Settled(b) /\ LastCalls(a, b)
                        /\ call[a].afterProv /\ call[b].afterProv)
                     => sequenceToken = call[w].next

C2_Witness ==
    \E a, b \in Calls :
        /\ Raced(a, b) /\ Settled(a) /\ Settled(b) /\ LastCalls(a, b)
        /\ call[a].afterProv /\ call[b].afterProv
        /\ call[a].tok # Null

(* ----------------------------------------------------------------- C3 *)
\* C3: when the store rejects an append as stale, the event is not in the
\* stream, the step that handles the rejection leaves the in-memory token and
\* the stream as they were and settles the call normally, and every log call
\* that reaches enviarLogCloudWatch afterwards sends one append carrying the
\* token the module then holds.
C3_StaleRejectionKeepsToken ==
    /\ [](\A c \in Calls : call[c].res = "stale" => Delivered(c) = 0)
    /\ [][\A c \in Calls :
            /\ SettlesStale(c) =>
                  /\ sequenceToken' = sequenceToken
                  /\ streams' = streams
                  /\ call'[c].pc = "done"
            /\ (call[c].pc = "idle" /\ call'[c].pc # "idle") =>
                  /\ call'[c].pc \in {"sent", "threw"}
                  /\ call'[c].pc = "sent" =>
                        call'[c].tok = sequenceToken /\ call'[c].submits = 1
                  /\ sequenceToken' = sequenceToken]_vars

\* a call was rejected as stale while the module held a token, and the next
\* call has been made with that same token
C3_Witness ==
    \E c, d \in Calls :
        /\ c < d /\ Settled(c) /\ call[c].res = "stale" /\ c \notin call[d].conc
        /\ call[d].pc = "sent" /\ call[d].tok = sequenceToken
        /\ sequenceToken \notin {Null, Undefined}

(* ----------------------------------------------------------------- C4 *)
\* C4 as stated: when the store reports a token mismatch for an append, the
\* in-memory token is reset to null and that same append is retried once.
C4_ResetAndRetry ==
    [][\A c \in Calls :
        SettlesStale(c) =>
            /\ sequenceToken' = Null
            /\ Submits(c) /\ call'[c].submits = 2 /\ call'[c].pc = "sent"]_vars

\* C4 as amended: when the store reports a token mismatch for an append, the
\* in-memory token is left as it is (not reset to null) and that append is
\* not retried: it has been submitted exactly once.
C4_NoResetNoRetry ==
    /\ [](\A c \in Calls : call[c].res = "stale" => call[c].submits = 1)
    /\ [][\A c \in Calls :
            SettlesStale(c) =>
                /\ sequenceToken' = sequenceToken
                /\ ~Submits(c)
                /\ call'[c].submits = 1]_vars

\* a mismatch was reported for a call that carried a real token, and the module
\* still holds that token
C4_Witness ==
    \E c \in Calls :
        /\ Settled(c) /\ call[c].res = "stale"
        /\ call[c].tok \notin {Null, Undefined}
        /\ sequenceToken = call[c].tok

(* ----------------------------------------------------------------- C5 *)
\* C5: whatever way an append fails, the event is submitted to the store at
\* most once and is in the stream at most once, handling the failure sends no
\* further append and changes nothing in the store, and the promise of
\* logInfo/logError resolves (the call ends normally).
C5_FailureDropsEvent ==
    /\ [](\A c \in Calls : call[c].submits <= 1 /\ Delivered(c) <= 1)
    /\ [][\A c \in Calls :
            SettlesFailed(c) =>
                /\ call'[c].pc = "done"
                /\ \A d \in Calls : ~Submits(d)
                /\ streams' = streams /\ groups' = groups]_vars

\* each kind of failure has been handled
C5_Witness ==
    \E a, b \in Calls :
        /\ Settled(a) /\ call[a].res = "neterr" /\ Delivered(a) = 0
        /\ Settled(b) /\ call[b].res \in {"stale", "notfound"} /\ Delivered(b) = 0

(* ----------------------------------------------------------------- C6 *)
\* C6: the step that processes the response of an accepted append sets the
\* in-memory token to the next-token of that response, whatever it held.
C6_AcceptedAppendSetsToken ==
    [][\A c \in Calls :
        SettlesOk(c) => sequenceToken' = call[c].next /\ call'[c].pc = "done"]_vars

\* the response processed last carried an older token than one processed
\* before it, and the module holds the older one
C6_Witness ==
    \E c, d \in Calls :
        /\ Settled(c) /\ Accepted(c) /\ Settled(d) /\ Accepted(d)
        /\ call[c].next < call[d].next
        /\ sequenceToken = call[c].next

(* ----------------------------------------------------------------- C7 *)
\* the store held no group of the configured name (hence no stream of it)
\* when the process started
FreshStart == LOG_GROUP_NAME \notin start.groups

\* the store serves the append of call c before that of any call made later
NotOvertaken(c) == \A d \in Calls : (d > c /\ Reached(d)) => Pos(c) < Pos(d)

\* C7: starting without the group and the stream, a provisioning that has
\* completed issued exactly one create-group and one create-stream and, no log
\* call having been made before it returned, left the in-memory token null;
\* the first append made after it carries no token, is accepted by the store
\* (no other writer, not overtaken by a later call) and makes the in-memory
\* token the one the store returned.
C7_FreshStreamFirstAppend ==
    (FreshStart /\ ProvisioningOk) =>
        /\ nCreateGroup = 1 /\ nCreateStream = 1
        /\ (\A c \in Calls : call[c].pc = "idle") => sequenceToken = Null
        /\ (call[1].pc # "idle" /\ call[1].afterProv) =>
              /\ call[1].tok = Null
              /\ Carried(call[1].tok) = Undefined
              /\ (Reached(1) /\ NotOvertaken(1) /\ ext = 0) => Accepted(1)
              /\ (Settled(1) /\ Accepted(1)
                    /\ \A c \in Calls \ {1} : ~(Settled(c) /\ Accepted(c)))
                 => sequenceToken = call[1].next

C7_Witness ==
    /\ FreshStart /\ ProvisioningOk
    /\ nCreateGroup = 1 /\ nCreateStream = 1
    /\ call[1].afterProv /\ call[1].tok = Null
    /\ Settled(1) /\ Accepted(1)
    /\ sequenceToken = call[1].next

(* ----------------------------------------------------------------- C8 *)
\* the configured stream existed with prior events when the process started
ExistingStream ==
    /\ LOG_GROUP_NAME \in start.groups
    /\ LOG_STREAM_NAME \in DOMAIN start.streams
    /\ start.streams[LOG_STREAM_NAME].events # <<>>

\* c is the first log call made after provisioning returned
FirstAfterProvisioning(c) ==
    /\ call[c].pc # "idle" /\ call[c].afterProv
    /\ \A d \in Calls : d < c => ~call[d].afterProv

C9_CreatesStreamUnlessExactNameExists ==
    (ProvisioningOk /\ LOG_STREAM_NAME \notin DOMAIN start.streams) =>
        /\ nCreateStream = 1
        /\ StreamExists
        /\ (\A c \in Calls : call[c].pc = "idle") => sequenceToken = Null

(* ---------------------------------------------------------------- C10 *)
\* provisioning resumes with the answer to describeLogGroups
ResumesWithGroups ==
    prov.pc = "describeLogGroups" /\ prov.served /\ ~prov.err /\ prov' # prov

ExactGroupListed ==
    \E i \in DOMAIN prov.list : prov.list[i].logGroupName = LOG_GROUP_NAME

\* C10: whatever groups exist, provisioning issues create-group exactly when
\* the describe result holds no group named exactly as configured, at most
\* once per process, and groups are only ever added (the configured one, by
\* that request), never changed or removed.
C10_CreateGroupIffNoExactName ==
    /\ [](nCreateGroup <= 1)
    /\ [][/\ ResumesWithGroups =>
                ((nCreateGroup' = nCreateGroup + 1 /\ prov'.pc = "createLogGroup")
                    <=> ~ExactGroupListed)
          /\ nCreateGroup' # nCreateGroup => ResumesWithGroups
          /\ groups \subseteq groups'
          /\ groups' # groups =>
                /\ groups' = groups \cup {LOG_GROUP_NAME}
                /\ prov.pc = "createLogGroup"]_vars

\* the group was created although a group with a longer name was listed
C10_Witness ==
    /\ LongerName \in start.groups /\ LOG_GROUP_NAME \notin start.groups
    /\ nCreateGroup = 1 /\ LOG_GROUP_NAME \in groups
    /\ ProvisioningOk

(* ---------------------------------------------------------------- C11 *)
\* ensureCloudWatchSetup resumes from an await that rejected
ProvisioningFails == prov.pc # "done" /\ prov.served /\ prov.err /\ prov' # prov
ProvisioningFailed == prov.pc = "done" /\ prov.err

\* C11: when any provisioning call fails, ensureCloudWatchSetup returns through
\* its catch (it does not throw), that step sends nothing to the store (no
\* append, no further describe or create), skips what was left of provisioning
\* and leaves the in-memory token as it was; once returned, provisioning never
\* moves again.
C11_ProvisioningFailureIsSwallowed ==
    [][/\ ProvisioningFails =>
            /\ prov' = Return(TRUE)
            /\ sequenceToken' = sequenceToken
            /\ nCreateGroup' = nCreateGroup /\ nCreateStream' = nCreateStream
            /\ call' = call
            /\ groups' = groups /\ streams' = streams
       /\ ProvisioningDone => prov' = prov]_vars

\* provisioning failed after it had asked for the group, the stream was never
\* asked for, and a log call was made afterwards
C11_Witness ==
    /\ ProvisioningFailed
    /\ nCreateGroup = 1 /\ nCreateStream = 0
    /\ sequenceToken = Null
    /\ \E c \in Calls : call[c].afterProv /\ Settled(c)

(* ---------------------------------------------------------------- C12 *)
\* C12 as stated: after a provisioning failure every append call fails: none
\* is accepted and no event of such a call is in the stream.
C12_AppendsFailAfterFailedProvisioning ==
    ProvisioningFailed =>
        \A c \in Calls : call[c].afterProv => ~Accepted(c) /\ Delivered(c) = 0

\* C12 as amended: a failed provisioning leaves the in-memory token null until
\* an append is accepted; an append made after the failure without a token is
\* accepted exactly when it is the first event of the (existing, empty)
\* stream, and fails otherwise; a failed append is not in the stream and is
\* not sent again.
C12_AppendsFailUnlessStreamEmpty ==
    ProvisioningFailed =>
        /\ (\A d \in Calls : ~Accepted(d)) => sequenceToken = Null
        /\ \A c \in Calls :
              call[c].afterProv =>
                  /\ (Reached(c) /\ call[c].tok = Null) =>
                        (Accepted(c) <=>
                            (StreamExists /\ Stream.events # <<>>
                                /\ Head(Stream.events) = c))
                  /\ (call[c].pc \in {"answered", "done"} /\ ~Accepted(c)) =>
                        /\ Delivered(c) = 0
                        /\ call[c].submits = 1
                        /\ call[c].res \in {"stale", "notfound", "neterr"}

\* after a failed provisioning an append without a token was rejected as
\* stale and the module still holds no token
C12_Witness ==
    /\ ProvisioningFailed
    /\ \E c \in Calls :
          /\ call[c].afterProv /\ Settled(c) /\ call[c].res = "stale"
          /\ call[c].tok = Null /\ sequenceToken = Null

(* ---------------------------------------------------------------- C13 *)
\* C13: whenever this process is the only writer, provisioning has completed
\* and no append is awaiting its response, the in-memory token is the token
\* the store expects for the next append to the stream.
C13_TokenMatchesStore ==
    (ext = 0 /\ ProvisioningOk /\ \A c \in Calls : ~InFlight(c)) =>
        StreamExists /\ Carried(sequenceToken) = Stream.token

(* ---------------------------------------------------------------- C14 *)
\* C14: the events of this process appear in the stream in the order in which
\* the process submitted them (calls are numbered in that order), whatever the
\* interleaving and the order in which requests and responses travel.
C14_DeliveredInSubmissionOrder ==
    StreamExists =>
        \A i, j \in 1..Len(Stream.events) :
            (i < j /\ Stream.events[i] # 0 /\ Stream.events[j] # 0)
                => Stream.events[i] < Stream.events[j]

\* two appends that were in flight together are both in the stream
C14_Witness ==
    \E c, d \in Calls :
        /\ c < d /\ c \in call[d].conc
        /\ Delivered(c) = 1 /\ Delivered(d) = 1

(* ---------------------------------------------------------------- C15 *)
\* C15: whatever request context a log call is given (a request, null, none)
\* and whatever the store answers, the promise of logInfo/logError resolves:
\* no log call ends by throwing.
C15_LogCallsNeverReject == \A c \in Calls : call[c].pc # "threw"

(* ---------------------------------------------------------------- C16 *)
\* the extra argument brings no field named like the event's own
PlainExtra(in) == DOMAIN in.extra \cap {"level", "message", "route"} = {}

\* C16: logInfo called with a null request context builds and submits an
\* event with level "info", the given message and the empty string as route.
C16_LogInfoWithoutContext ==
    (last.made /\ last.in.fn = "logInfo" /\ last.in.req.kind = "null"
        /\ PlainExtra(last.in)) =>
        /\ ~last.threw
        /\ call[last.call].submits = 1
        /\ last.log["level"] = "info"
        /\ last.log["message"] = last.in.message
        /\ last.log["route"] = ""

(* ---------------------------------------------------------------- C17 *)
\* C17: logError called with a null or an absent request context does not
\* fail and submits an event whose route field is present and is the empty
\* string.
C17_LogErrorWithoutContext ==
    (last.made /\ last.in.fn = "logError" /\ last.in.req.kind # "object"
        /\ PlainExtra(last.in)) =>
        /\ ~last.threw
        /\ call[last.call].submits = 1
        /\ "route" \in DOMAIN last.sent
        /\ last.sent["route"] = ""

(* ---------------------------------------------------------------- C18 *)
\* the event the call builds when it is given no extra
WithoutExtra(in) == BuildLog([in EXCEPT !.extra = NoFields])

\* C18: for every extra, the event holds every field of extra that is not
\* named level, message or route, and its level, message and route are the
\* ones the call derives itself, not those of extra.
C18_ExtraKeepsReservedFields ==
    (last.made /\ ~last.threw) =>
        /\ \A k \in DOMAIN last.in.extra \ {"level", "message", "route"} :
              k \in DOMAIN last.log /\ last.log[k] = last.in.extra[k]
        /\ \A k \in {"level", "message", "route"} :
              last.log[k] = WithoutExtra(last.in)[k]

(* ---------------------------------------------------------------- C19 *)
\* C19: logError builds an event with level "error", the message and the
\* route, and with the error value nested under its error field when an
\* error value is passed.
C19_LogErrorEvent ==
    (last.made /\ last.in.fn = "logError") =>
        /\ last.log["level"] = "error"
        /\ last.log["message"] = last.in.message
        /\ last.log["route"] = RouteOf(last.in)
        /\ Truthy(last.in.error) =>
              /\ "error" \in DOMAIN last.log
              /\ last.log["error"] = [error |-> last.in.error]

(* ---------------------------------------------------------------- C20 *)
\* the handler has made a log call whose append the store has not answered
LogUnanswered == http.logCall # 0 /\ call[http.logCall].pc = "sent"

\* C20: no handler waits for a log call before it answers: whenever the
\* append made for the current request is still unanswered by the store, the
\* response of that request has already been sent.
C20_ResponseBeforeLogAnswer == LogUnanswered => http.pc = "done"

(* ---------------------------------------------------------------- C22 *)
\* how far ensureCloudWatchSetup has got
ProvStage(pc) ==
    CASE pc = "describeLogGroups" -> 1
      [] pc = "createLogGroup" -> 2
      [] pc = "describeLogStreams" -> 3
      [] pc = "createLogStream" -> 4
      [] pc = "done" -> 5

\* C22: provisioning runs once: it is under way when the module is loaded,
\* before any log call; it only moves forward, issues each of its requests at
\* most once, and once it has returned, with or without a failure, it stays
\* returned whatever the log calls do.
C22_ProvisionedOnce ==
    /\ [](nCreateGroup <= 1 /\ nCreateStream <= 1)
    /\ [][/\ ProvStage(prov'.pc) >= ProvStage(prov.pc)
          /\ ProvisioningDone => prov' = prov]_vars

\* provisioning failed, and a log call made after it was rejected and has
\* settled: provisioning is still where it returned
C22_Witness ==
    /\ ProvisioningFailed
    /\ \E c \in Calls : Settled(c) /\ call[c].afterProv /\ ~Accepted(c)

(* ---------------------------------------------------------------- C23 *)
\* C23: once an append has succeeded and set sequenceToken, every later
\* write of sequenceToken is that of a successful append: the provisioning
\* still running from startup never writes over it.
C23_OnlyAppendsWriteAfterAppend ==
    [][((\E c \in Calls : Settled(c) /\ Accepted(c))
            /\ sequenceToken' # sequenceToken)
         => \E c \in Calls : SettlesOk(c)]_vars

(* ---------------------------------------------------------------- C24 *)
\* the step in which provisioning resumes with a list of streams and seeds
\* the token from it
SeedsToken ==
    /\ prov.pc = "describeLogStreams" /\ prov.served /\ ~prov.err
    /\ Len(prov.list) > 0
    /\ prov' # prov

\* C24: whatever streams the store lists for the name prefix, the token
\* provisioning stores is the one of the listed stream named exactly
\* LOG_STREAM_NAME.
C24_SeedsFromExactStream ==
    [][SeedsToken =>
         \E i \in 1..Len(prov.list) :
            /\ prov.list[i].logStreamName = LOG_STREAM_NAME
            /\ sequenceToken' = prov.list[i].uploadSequenceToken]_vars

(* ---------------------------------------------------------------- C29 *)
\* C29: a log call builds its event, reads sequenceToken and sends the append
\* in one step: a call is never found between being made and its request
\* being sent, the request carries the token the module held when the call
\* was made, and a call is suspended only on its append.
C29_LogCallIsOneStep ==
    /\ [](\A c \in Calls : call[c].pc \in {"idle", "threw", "sent", "answered", "done"})
    /\ [][\A c \in Calls :
            (call[c].pc = "idle" /\ call'[c].pc # "idle") =>
                \/ call'[c].pc = "threw"
                \/ /\ call'[c].pc = "sent"
                   /\ call'[c].tok = sequenceToken
                   /\ sequenceToken' = sequenceToken
                   /\ prov' = prov]_vars

\* a call made while provisioning was still under way has sent its request
\* with the token an earlier append had stored by then
C29_Witness ==
    \E c \in Calls :
        /\ call[c].pc = "sent"
        /\ ~call[c].afterProv
        /\ call[c].tok \notin {Null, Undefined}

(* ---------------------------------------------------------------- C25 *)
\* the store has rejected the append of call c as stale and no other append
\* of this process is in flight
StaleAlone(c) ==
    /\ call[c].pc = "answered" /\ call[c].res = "stale"
    /\ \A d \in Calls \ {c} : ~InFlight(d)

\* the store has just accepted the append of some call
AcceptedNow == \E d \in Calls : call[d].pc = "answered" /\ call[d].res = "ok"

\* C25: the component recovers from a stale token: after an append was
\* rejected as stale with no other append in flight, the append of some later
\* log call is eventually accepted by the store.
C25_RecoversFromStaleToken == (\E c \in Calls : StaleAlone(c)) ~> AcceptedNow

(* ---------------------------------------------------------------- C26 *)
\* C26: when the startup chain has run, a connection that succeeded has
\* submitted exactly one info event and no error event, and a connection that
\* failed has submitted one error event and no info event.
C26_StartupEvents ==
    boot.pc = "done" =>
        IF boot.connected THEN boot.info = 1 /\ boot.error = 0
        ELSE boot.info = 0 /\ boot.error = 1

(* ---------------------------------------------------------------- C21 *)
\* C21: whatever the interleaving of POST /usuarios and PUT /usuarios/:id
\* requests, no two stored users have the same email, and a request whose
\* email was in use by another user when the database was asked is answered
\* 400 and changes no user.
C21_EmailUnique ==
    /\ \A i, j \in DOMAIN users : i # j => users[i] # users[j]
    /\ \A r \in Calls :
          (ureq[r].pc = "done" /\ ureq[r].inUse) =>
              ureq[r].status = 400 /\ ~ureq[r].changed

Removed(id) ==
    {r \in Calls : /\ preq[r].kind = "DELETE" /\ preq[r].id = id
                   /\ preq[r].pc = "done" /\ preq[r].status = 200}

\* C28: for every product id, whatever the interleaving of the DELETE
\* requests for it, at most one of them is answered 200 "Produto removido com
\* sucesso" for the row, and a request answered 200 has removed the row.
C28_OneDeletePerRow ==
    /\ \A id \in 1..2 : Cardinality(Removed(id)) <= 1
    /\ \A r \in Calls :
          (preq[r].kind = "DELETE" /\ preq[r].pc = "done" /\ preq[r].status = 200)
              => preq[r].affected

====
